---- MODULE Spec2Model ----
(***************************************************************************)
(* wled-ping: the sampling / history / colour-mapping / pacing loop of     *)
(* src/wled-ping.py, as a state machine.                                   *)
(*                                                                         *)
(* One run of main() is modelled.  pc is the position of main(): the       *)
(* statement that runs next.  An exception that nothing catches leaves     *)
(* main(): pc becomes "exit" and error records the exception and the line  *)
(* that raised it.  Console output (print) changes no state that the loop  *)
(* reads and is left out.                                                  *)
(*                                                                         *)
(* Time is counted in whole seconds.  time_per_led is the quotient of      *)
(* line 76; every LED count the model uses divides timescale * 60, so the  *)
(* integer quotient is the exact value.                                    *)
(***************************************************************************)
EXTENDS Integers, Sequences, FiniteSets, TLC

VARIABLES
    pc,            \* position of main()
    error,         \* the uncaught exception that ended main(), or NoError
    timescale,     \* args.timescale
    max_ms,        \* args.max
    led_count,     \* main: led_count
    time_per_led,  \* main: time_per_led
    times,         \* main: times, the history, newest first
    output,        \* the lines the ping subprocess wrote in this iteration
    samples,       \* main: samples
    sample,        \* main: sample
    rgbs,          \* main: rgbs
    strip,         \* the colours the device's segment 0 shows
    now,           \* the wall clock, what time() returns
    t1,            \* main: t1
    t2,            \* main: t2
    delay,         \* main: delay
    iter,          \* history: iterations started (line 83 reached)
    pushed,        \* history: every sample inserted at line 90, oldest first
    renders,       \* history: calls of led.segment (line 102)
    paces,         \* history: pacing steps finished (lines 104-108)
    work,          \* history: seconds the ping burst and the device call of
                   \* the current iteration took
    fetched        \* history: the LED count each led.update() call returned

vars == <<pc, error, timescale, max_ms, led_count, time_per_led, times, output,
          samples, sample, rgbs, strip, now, t1, t2, delay, iter, pushed,
          renders, paces, work, fetched>>

----------------------------------------------------------------------------
(* Bounds of the model *)

\* Largest LED count the device reports.
MaxLeds == 4
\* Iterations of the loop that are explored.
MaxIter == 4
\* Longest ping output, in lines, of the loop specification.
LoopLines == 1
\* Longest ping output, in lines, of the sampler specification.
MaxLines == 3
\* Seconds a ping burst or a device call may take.
WorkDurations == {0, 30}
\* Values of --timescale (minutes).
Timescales == {1, 2}
\* Largest of the consecutive sample values of the mapper specification.
MaxValue == 8
\* Longest history of the mapper specification.
MapperLen == 2

----------------------------------------------------------------------------
(* Values *)

\* Python's None: a timed-out probe, a failed sample.
None == 0 - 1
\* A local of main() that is not bound yet.
Unbound == 0 - 2
\* --max: the ceiling of the colour ramp (default).
ArgsMax == 2000

NoError == [exc |-> "none", line |-> 0]

Max(S) == CHOOSE x \in S : \A y \in S : y <= x

SeqsUpTo(S, n) == UNION {[1..k -> S] : k \in 0..n}

----------------------------------------------------------------------------
(* The lines of the ping utility.  A line is held as the parts the code    *)
(* looks at: head, the text the line starts with ("" for a line of white   *)
(* space only); ms, the characters between "time=" and " ms" (<<>> when    *)
(* the line has no such part); loss, whether it holds "100% packet loss".  *)

Line(h, m, l) == [head |-> h, ms |-> m, loss |-> l]

BlankLine   == Line("", <<>>, FALSE)
HeaderLine  == Line("PING", <<>>, FALSE)
Reply42     == Line("64 bytes", <<"4", "2", ".", "1">>, FALSE)
Reply7      == Line("64 bytes", <<"7", ".", "9">>, FALSE)
Reply123    == Line("64 bytes", <<"1", "2", "3">>, FALSE)
TimeoutLine == Line("Request timeout", <<>>, FALSE)
LossLine    == Line("4 packets", <<>>, TRUE)
OtherLine   == Line("From", <<>>, FALSE)

\* Lines of the sampler specification.
Lines == {HeaderLine, Reply42, Reply7, Reply123, TimeoutLine, LossLine, OtherLine}
\* Lines of the loop specification.
LoopLineKinds == {Reply42, Reply7, TimeoutLine, LossLine}

DigitChars == {"0", "1", "2", "3", "4", "5", "6", "7", "8", "9"}

DigitVal(c) ==
    CASE c = "0" -> 0 [] c = "1" -> 1 [] c = "2" -> 2 [] c = "3" -> 3
      [] c = "4" -> 4 [] c = "5" -> 5 [] c = "6" -> 6 [] c = "7" -> 7
      [] c = "8" -> 8 [] c = "9" -> 9

IsDigits(s) == Len(s) > 0 /\ \A i \in 1..Len(s) : s[i] \in DigitChars

\* int(): the value of a string of decimal digits.
RECURSIVE ToInt(_)
ToInt(s) ==
    IF s = <<>> THEN 0
    ELSE 10 * ToInt(SubSeq(s, 1, Len(s) - 1)) + DigitVal(s[Len(s)])

\* re.search("time=(\d+).\d+ ms", line): group 1, or <<>> when nothing
\* matches.  (\d+) is greedy: the longest run of digits that still leaves one
\* character of any kind and at least one digit before " ms".
ReSearch(line) ==
    LET T  == line.ms
        ks == {k \in 1..(Len(T) - 2) :
                  /\ IsDigits(SubSeq(T, 1, k))
                  /\ IsDigits(SubSeq(T, k + 2, Len(T)))}
    IN  IF ks = {} THEN <<>> ELSE SubSeq(T, 1, Max(ks))

SkippedHeads == {"PING", "---", "4 packets", "round-trip"}

\* Variant: a line of no known form counts as a failed probe.
PingYieldStrict(line) ==
    IF line = BlankLine \/ line.head \in SkippedHeads THEN <<>>
    ELSE IF line.head = "Request timeout" THEN <<None>>
    ELSE IF ReSearch(line) # <<>> THEN <<ToInt(ReSearch(line))>>
    ELSE <<None>>

\* What one line makes ping() yield: nothing, None, or one integer.
PingYield(line) ==
    IF line = BlankLine \/ line.head \in SkippedHeads THEN <<>>
    ELSE IF line.head = "Request timeout" THEN <<None>>
    ELSE IF ReSearch(line) # <<>> THEN <<ToInt(ReSearch(line))>>
    ELSE <<>>

\* list(ping(host)) for a subprocess that writes lines and then ends.
RECURSIVE Ping(_)
Ping(lines) ==
    IF lines = <<>> THEN <<>>
    ELSE PingYield(Head(lines)) \o Ping(Tail(lines))

HasNone(s) == \E i \in 1..Len(s) : s[i] = None

\* Lines 85-88: max() of an empty list raises ValueError.
ReduceRaises(s) == ~HasNone(s) /\ s = <<>>

\* Variant: the last yield instead of the largest.
ReduceLast(s) == IF HasNone(s) THEN None ELSE s[Len(s)]

\* Lines 85-88: None if any probe timed out, else the largest value.
Reduce(s) == IF HasNone(s) THEN None ELSE Max({s[i] : i \in 1..Len(s)})

----------------------------------------------------------------------------
(* The colour mapper *)

\* int(math.log10(p) * (255.0 / math.log10(max))) as CPython evaluates it in
\* IEEE double arithmetic, for the ceilings and values the model feeds it:
\* <<max, p, value>>.
RampTable == {
    <<2, 1, 0>>, <<2, 2, 255>>,
    <<5, 1, 0>>, <<5, 2, 109>>, <<5, 3, 174>>, <<5, 4, 219>>, <<5, 5, 254>>,
    <<10, 1, 0>>, <<10, 2, 76>>, <<10, 3, 121>>, <<10, 4, 153>>,
    <<10, 5, 178>>, <<10, 6, 198>>, <<10, 7, 215>>, <<10, 8, 230>>,
    <<10, 9, 243>>, <<10, 10, 255>>,
    <<32, 1, 0>>, <<32, 2, 51>>, <<32, 3, 80>>, <<32, 4, 102>>,
    <<32, 5, 118>>, <<32, 6, 131>>, <<32, 7, 143>>, <<32, 8, 152>>,
    <<32, 9, 161>>, <<32, 10, 169>>, <<32, 11, 176>>, <<32, 12, 182>>,
    <<32, 32, 255>>,
    <<1000, 1, 0>>, <<1000, 2, 25>>, <<1000, 3, 40>>, <<1000, 4, 51>>,
    <<1000, 5, 59>>, <<1000, 6, 66>>, <<1000, 7, 71>>, <<1000, 8, 76>>,
    <<1000, 9, 81>>, <<1000, 10, 85>>, <<1000, 11, 88>>, <<1000, 12, 91>>,
    <<1000, 32, 127>>, <<1000, 42, 137>>, <<1000, 100, 170>>,
    <<1000, 1000, 255>>,
    <<2000, 1, 0>>, <<2000, 2, 23>>, <<2000, 3, 36>>, <<2000, 4, 46>>,
    <<2000, 5, 53>>, <<2000, 6, 60>>, <<2000, 7, 65>>, <<2000, 8, 69>>,
    <<2000, 9, 73>>, <<2000, 10, 77>>, <<2000, 11, 80>>, <<2000, 12, 83>>,
    <<2000, 32, 116>>, <<2000, 42, 125>>, <<2000, 100, 154>>,
    <<2000, 1000, 231>>, <<2000, 2000, 255>>}

\* Variant: the ramp runs from 255 down.
LogRampInverted(p, max) ==
    255 - (CHOOSE e \in RampTable : e[1] = max /\ e[2] = p)[3]

\* Variant: the ramp is scaled by 256 instead of 255.
LogRamp256(p, max) ==
    ((CHOOSE e \in RampTable : e[1] = max /\ e[2] = p)[3] * 256) \div 255

\* Line 52, for arguments it does not raise on.
LogRamp(p, max) == (CHOOSE e \in RampTable : e[1] = max /\ e[2] = p)[3]

\* Line 52: the exception the expression raises, or "none".  math.log10
\* raises ValueError below 1 and log10(1) = 0 makes the division raise.
RampError(p, max) ==
    IF p <= 0 \/ max <= 0 THEN "ValueError"
    ELSE IF max = 1 THEN "ZeroDivisionError"
    ELSE "none"

\* Lines 51-55: the colour, or <<exc>> when the expression raises exc.
Ramp(p, max) ==
    IF RampError(p, max) # "none" THEN <<RampError(p, max)>>
    ELSE <<LogRamp(p, max), 255, 0>>

\* Variant: the ceiling is tested before the floor.
ms2rgbCeilingFirst(p, max) ==
    IF p = None THEN <<255, 0, 0>>
    ELSE IF p > max THEN <<127, 0, 0>>
    ELSE IF p <= 1 THEN <<0, 255, 0>>
    ELSE Ramp(p, max)

\* Variant: only values below 1 take the floor colour.
ms2rgbLax(p, max) ==
    IF p = None THEN <<255, 0, 0>>
    ELSE IF p < 1 THEN <<0, 255, 0>>
    ELSE IF p > max THEN <<127, 0, 0>>
    ELSE Ramp(p, max)

\* Lines 30-55: the colour of one sample, or <<exc>> when the call raises.
ms2rgb(p, max) ==
    IF p = None THEN <<255, 0, 0>>
    ELSE IF p <= 1 THEN <<0, 255, 0>>
    ELSE IF p > max THEN <<127, 0, 0>>
    ELSE Ramp(p, max)

\* Variant: the colours are listed oldest first.
ColoursReversed(ts, max) ==
    [i \in 1..Len(ts) |-> ms2rgb(ts[Len(ts) + 1 - i], max)]

\* Line 94: [ms2rgb(ms, max=args.max) for ms in times]
Colours(ts, max) == [i \in 1..Len(ts) |-> ms2rgb(ts[i], max)]

----------------------------------------------------------------------------
(* main() *)

\* Variant: the window is taken in seconds, not minutes.
TimePerLedSeconds(ts, n) == ts \div n

\* Line 76: (args.timescale * 60) / led_count; led_count = 0 raises.
TimePerLed(ts, n) == (ts * 60) \div n

\* Variant: the sample is appended at the tail.
PrependAtTail(ts, s) == Append(ts, s)

\* Line 90: times.insert(0, sample)
Prepend(ts, s) == <<s>> \o ts

\* Variant: one entry too few is kept.
TruncatedTooShort(ts, n) == IF Len(ts) >= n THEN SubSeq(ts, 1, n - 1) ELSE ts

\* Variant: one entry too many is kept.
TruncatedOffByOne(ts, n) == IF Len(ts) > n + 1 THEN SubSeq(ts, 1, n + 1) ELSE ts

\* Lines 91-92: times = times[0:led_count] when it is longer
Truncated(ts, n) == IF Len(ts) > n THEN SubSeq(ts, 1, n) ELSE ts

\* Variant: sleep(abs(delay)), whatever the sign.
SleepForAbs(d) == IF d > 0 THEN d ELSE 0 - d

\* Lines 107-108: the seconds slept; sleep() is called only for delay > 0.
SleepFor(d) == IF d > 0 THEN d ELSE 0

Raise(exc, line) ==
    /\ pc' = "exit"
    /\ error' = [exc |-> exc, line |-> line]

Init ==
    /\ pc = "connect"
    /\ error = NoError
    /\ timescale \in Timescales
    /\ max_ms = ArgsMax
    /\ led_count = Unbound
    /\ time_per_led = Unbound
    /\ times = <<>>
    /\ output = <<>>
    /\ samples = <<>>
    /\ sample = Unbound
    /\ rgbs = <<>>
    /\ strip = <<>>
    /\ now = 0
    /\ t1 = Unbound
    /\ t2 = Unbound
    /\ delay = Unbound
    /\ iter = 0
    /\ pushed = <<>>
    /\ renders = 0
    /\ paces = 0
    /\ work = 0
    /\ fetched = <<>>

\* Line 73: async with WLED(args.wled) as led
Connect ==
    /\ pc = "connect"
    /\ \E ok \in BOOLEAN :
          IF ok THEN pc' = "update" /\ error' = error
          ELSE Raise("WLEDConnectionError", 73)
    /\ UNCHANGED <<fetched, max_ms, timescale, led_count, time_per_led, times, output, samples,
                   sample, rgbs, strip, now, t1, t2, delay, iter, pushed,
                   renders, paces, work>>

\* Variant: an LED count of 0 is let through with a time_per_led of 0.
UpdateUnguarded ==
    /\ pc = "update"
    /\ \/ /\ Raise("WLEDConnectionError", 74)
          /\ UNCHANGED <<led_count, time_per_led, fetched>>
       \/ \E n \in 0..MaxLeds :
             /\ led_count' = n
             /\ fetched' = Append(fetched, n)
             /\ time_per_led' = IF n = 0 THEN 0 ELSE TimePerLed(timescale, n)
             /\ pc' = "sample"
             /\ error' = error
    /\ UNCHANGED <<max_ms, timescale, times, output, samples, sample, rgbs, strip, now,
                   t1, t2, delay, iter, pushed, renders, paces, work>>

\* Lines 74-81: the device info is fetched; time_per_led is derived from it.
Update ==
    /\ pc = "update"
    /\ \/ /\ Raise("WLEDConnectionError", 74)
          /\ UNCHANGED <<led_count, time_per_led, fetched>>
       \/ \E n \in 0..MaxLeds :
             /\ led_count' = n
             /\ fetched' = Append(fetched, n)
             /\ IF n = 0
                THEN Raise("ZeroDivisionError", 76) /\ UNCHANGED time_per_led
                ELSE /\ time_per_led' = TimePerLed(timescale, n)
                     /\ pc' = "sample"
                     /\ error' = error
    /\ UNCHANGED <<max_ms, timescale, times, output, samples, sample, rgbs, strip, now,
                   t1, t2, delay, iter, pushed, renders, paces, work>>

\* Lines 83-88: the clock is read, the ping subprocess runs to its end and its
\* yields are reduced to one sample.
Sample(bursts, cap) ==
    /\ pc = "sample"
    /\ iter < cap
    /\ iter' = iter + 1
    /\ t1' = now
    /\ \E out \in bursts, w \in WorkDurations :
          /\ output' = out
          /\ samples' = Ping(out)
          /\ now' = now + w
          /\ work' = w
          /\ IF ReduceRaises(Ping(out))
             THEN Raise("ValueError", 88) /\ UNCHANGED sample
             ELSE /\ sample' = Reduce(Ping(out))
                  /\ pc' = "insert"
                  /\ error' = error
    /\ UNCHANGED <<fetched, max_ms, timescale, led_count, time_per_led, times, rgbs, strip, t2,
                   delay, pushed, renders, paces>>

\* Line 90: times.insert(0, sample).  samples and the drained pipe are not
\* read again; they are let go here.
Insert ==
    /\ pc = "insert"
    /\ times' = Prepend(times, sample)
    /\ pushed' = Append(pushed, sample)
    /\ output' = <<>>
    /\ samples' = <<>>
    /\ pc' = "truncate"
    /\ UNCHANGED <<fetched, max_ms, error, timescale, led_count, time_per_led, sample, rgbs,
                   strip, now, t1, t2, delay, iter, renders, paces, work>>

\* Variant: lines 94-108 indented under the if of line 91, so that an
\* iteration that truncates nothing renders nothing.
TruncateIndented ==
    /\ pc = "truncate"
    /\ times' = Truncated(times, led_count)
    /\ pc' = IF Len(times) > led_count THEN "map" ELSE "sample"
    /\ UNCHANGED <<fetched, max_ms, error, timescale, led_count, time_per_led, output, samples,
                   sample, rgbs, strip, now, t1, t2, delay, iter, pushed,
                   renders, paces, work>>

\* Lines 91-92
Truncate ==
    /\ pc = "truncate"
    /\ times' = Truncated(times, led_count)
    /\ pc' = "map"
    /\ UNCHANGED <<fetched, max_ms, error, timescale, led_count, time_per_led, output, samples,
                   sample, rgbs, strip, now, t1, t2, delay, iter, pushed,
                   renders, paces, work>>

\* Lines 94-100: the colours of the whole history; rgbs[0] is read.  An
\* exception of ms2rgb leaves the list unbuilt.
Map ==
    /\ pc = "map"
    /\ LET cs     == Colours(times, max_ms)
           raised == {i \in 1..Len(cs) : Len(cs[i]) = 1}
       IN  IF raised # {}
           THEN /\ Raise(cs[CHOOSE i \in raised : \A j \in raised : i <= j][1], 52)
                /\ UNCHANGED rgbs
           ELSE /\ rgbs' = cs
                /\ IF times = <<>>
                   THEN Raise("IndexError", 95)
                   ELSE pc' = "render" /\ error' = error
    /\ UNCHANGED <<fetched, max_ms, timescale, led_count, time_per_led, times, output, samples,
                   sample, strip, now, t1, t2, delay, iter, pushed, renders,
                   paces, work>>

\* Line 102: await led.segment(0, on=True, brightness=255, individual=rgbs)
Render ==
    /\ pc = "render"
    /\ renders' = renders + 1
    /\ \E ok \in BOOLEAN, w \in WorkDurations :
          /\ now' = now + w
          /\ work' = work + w
          /\ IF ok
             THEN strip' = rgbs /\ pc' = "pace" /\ error' = error
             ELSE Raise("WLEDConnectionError", 102) /\ UNCHANGED strip
    /\ UNCHANGED <<fetched, max_ms, timescale, led_count, time_per_led, times, output, samples,
                   sample, rgbs, t1, t2, delay, iter, pushed, paces>>

\* Lines 104-108
Pace ==
    /\ pc = "pace"
    /\ t2' = now
    /\ delay' = time_per_led - (now - t1)
    /\ now' = now + SleepFor(delay')
    /\ paces' = paces + 1
    /\ pc' = "sample"
    /\ UNCHANGED <<fetched, max_ms, error, timescale, led_count, time_per_led, times, output,
                   samples, sample, rgbs, strip, t1, iter, pushed, renders,
                   work>>

Next ==
    \/ Connect
    \/ Update
    \/ Sample(SeqsUpTo(LoopLineKinds, LoopLines), MaxIter)
    \/ Insert
    \/ Truncate
    \/ Map
    \/ Render
    \/ Pace

Spec == Init /\ [][Next]_vars

\* One iteration of the same loop, over every ping output of up to MaxLines
\* lines.
SamplerNext ==
    \/ Connect
    \/ Update
    \/ Sample(SeqsUpTo(Lines, MaxLines), 1)
    \/ Insert
    \/ Truncate
    \/ Map
    \/ Render
    \/ Pace

SamplerSpec == Init /\ [][SamplerNext]_vars

\* Values of --max of the mapper specification.
Ceilings == {0 - 1, 0, 1, 2, 5, 10, 32, 1000, 2000}

\* Samples of the mapper specification: None, every value up to MaxValue and
\* some larger ones.
MapperSamples ==
    {None} \cup (0..MaxValue) \cup {10, 32, 42, 100, 1000, 2000, 10000}

Reverse(s) == [i \in 1..Len(s) |-> s[Len(s) + 1 - i]]

\* The colour mapping, render and pacing steps over every ceiling and every
\* history of up to MapperLen samples.  A run starts at line 94 of iteration
\* k of a strip of k LEDs, the earlier iterations having taken no time:
\* times holds the k samples pushed so far.
MapperInit ==
    /\ pc = "map"
    /\ error = NoError
    /\ timescale \in Timescales
    /\ max_ms \in Ceilings
    /\ times \in SeqsUpTo(MapperSamples, MapperLen) \ {<<>>}
    /\ led_count = Len(times)
    /\ time_per_led = TimePerLed(timescale, led_count)
    /\ output = <<>>
    /\ samples = <<>>
    /\ sample = times[1]
    /\ rgbs = Colours(Tail(times), max_ms)
    /\ strip = rgbs
    /\ iter = Len(times)
    /\ pushed = Reverse(times)
    /\ renders = iter - 1
    /\ paces = iter - 1
    /\ work = 0
    /\ fetched = <<led_count>>
    /\ now = (iter - 1) * time_per_led
    /\ t1 = now
    /\ t2 = IF iter = 1 THEN Unbound ELSE (iter - 2) * time_per_led
    /\ delay = IF iter = 1 THEN Unbound ELSE time_per_led

MapperNext ==
    \/ Map
    \/ Render
    \/ Pace

MapperSpec == MapperInit /\ [][MapperNext]_vars

----------------------------------------------------------------------------
(* Properties *)

\* Lines 83-88 of the current iteration have run and nothing has run since:
\* output and samples are those of this iteration.
BurstRead == pc = "insert" \/ (pc = "exit" /\ error.line = 88)

\* The positions inside the loop of lines 82-108.
LoopPcs == {"sample", "insert", "truncate", "map", "render", "pace"}

Min(a, b) == IF a <= b THEN a ELSE b

\* C1: a burst that yields no latency value (empty output, total loss
\* without a timeout line, only unparseable lines) gives the sample "failed":
\* no error is raised and the loop goes on to push it.
C1_NoValueGivesFailedSample ==
    (BurstRead /\ \A i \in 1..Len(samples) : samples[i] = None)
        => (pc = "insert" /\ error = NoError /\ sample = None)

\* C2: a connectivity error of the render call (line 102) does not end the
\* loop.
C2_RenderErrorIsNotFatal ==
    (error.exc = "WLEDConnectionError" /\ error.line = 102) => pc # "exit"

\* C3 as stated: in every reachable state, the state between the prepend and
\* the truncation included, the history is no longer than the LED count.
C3_LengthAtMostLedCountEverywhere ==
    led_count # Unbound => Len(times) <= led_count

\* C3 as amended: the history is no longer than the LED count in every
\* reachable state but the one between the prepend (line 90) and the
\* truncation (lines 91-92), where it is at most one longer.
C3_LengthAtMostLedCount ==
    led_count # Unbound =>
        IF pc = "truncate" THEN Len(times) <= led_count + 1
        ELSE Len(times) <= led_count

C3_Witness ==
    pc = "truncate" /\ Len(times) = led_count + 1 /\ Len(pushed) > led_count

\* C4: after k completed history updates the history is the last
\* min(k, led_count) pushed samples, newest first: index 0 holds the last
\* one pushed and only the oldest have been dropped.
C4_HistoryIsNewestFirstTail ==
    (led_count >= 1 /\ pc \notin {"connect", "update", "truncate"}) =>
        LET k == Len(pushed)
            m == Min(k, led_count)
        IN  /\ Len(times) = m
            /\ \A i \in 1..m : times[i] = pushed[k - i + 1]

C4_Witness ==
    /\ pc = "map"
    /\ led_count >= 2
    /\ Len(pushed) > led_count
    /\ times[1] # times[2]
    /\ pushed[1] # times[led_count]

\* C5: a burst with at least one parsed latency value gives "failed" if any
\* probe reported a timeout, and otherwise exactly the largest of the parsed
\* values.
C5_FailedOnTimeoutElseMax ==
    (BurstRead /\ \E i \in 1..Len(samples) : samples[i] # None) =>
        /\ pc = "insert"
        /\ error = NoError
        /\ IF \E j \in 1..Len(output) : output[j].head = "Request timeout"
           THEN sample = None
           ELSE /\ \E i \in 1..Len(samples) : sample = samples[i]
                /\ \A i \in 1..Len(samples) : samples[i] <= sample
                /\ sample # None

C5_Witness ==
    /\ pc = "insert"
    /\ Len(samples) >= 2
    /\ \A j \in 1..Len(output) : output[j].head # "Request timeout"
    /\ samples[1] > samples[Len(samples)]
    /\ sample = samples[1]

\* C6: a burst whose output holds a full-loss summary line ("100% packet
\* loss") gives the sample "failed", whatever its other lines.
C6_LossLineGivesFailedSample ==
    (BurstRead /\ \E j \in 1..Len(output) : output[j].loss)
        => (pc = "insert" /\ sample = None)

\* C7: the seconds slept by an iteration are max(0, time_per_led - elapsed),
\* elapsed being the time that iteration's ping burst and device call took:
\* never negative, none when elapsed >= time_per_led, and nothing of an
\* earlier iteration enters it.
C7_SleepIsClampedBudget ==
    (pc = "sample" /\ paces > 0) =>
        LET elapsed == t2 - t1
            slept   == now - t2
        IN  /\ elapsed = work
            /\ delay = time_per_led - elapsed
            /\ slept >= 0
            /\ elapsed >= time_per_led => slept = 0
            /\ elapsed < time_per_led => slept = time_per_led - elapsed

C7_Witness ==
    /\ pc = "sample"
    /\ paces > 1
    /\ work > time_per_led
    /\ now = t2

C9_LoopIsNeverLeft == iter > 0 => pc # "exit"

Mapped == pc = "render"

Red      == <<255, 0, 0>>
Green    == <<0, 255, 0>>
DarkRed  == <<127, 0, 0>>

\* C11: whatever the ceiling, a failed sample maps to (255,0,0), every value
\* <= 1 to (0,255,0) and every value above the ceiling to (127,0,0), the
\* three cases being tested in this order.
C11_SentinelColours ==
    Mapped =>
        \A i \in 1..Len(times) :
            LET v == times[i]
            IN  /\ v = None => rgbs[i] = Red
                /\ (v # None /\ v <= 1) => rgbs[i] = Green
                /\ (v # None /\ v > 1 /\ v > max_ms) => rgbs[i] = DarkRed

C11_Witness ==
    /\ Mapped
    /\ max_ms = 0
    /\ Len(times) = 2
    /\ times[1] = 1 /\ rgbs[1] = Green
    /\ times[2] = 2 /\ rgbs[2] = DarkRed

RECURSIVE Pow(_, _)
Pow(b, e) == IF e = 0 THEN 1 ELSE b * Pow(b, e - 1)

\* Bases and exponents of the value/ceiling pairs b^e1, b^e2 for which
\* floor(log10(value) * 255 / log10(ceiling)) is floor(255 * e1 / e2).
Bases == 2..10
Exponents == 1..5

\* C12: a value in 2..ceiling maps to (R, 255, 0) with
\* R = floor(log10(value) * 255 / log10(ceiling)); stated for the pairs whose
\* quotient of logarithms is a known fraction: value = ceiling, and value and
\* ceiling powers of one base (10, 100, 1000 under 1000 among them).
C12_RampIsExactFloor ==
    Mapped =>
        \A i \in 1..Len(times) :
            /\ (times[i] >= 2 /\ times[i] = max_ms) => rgbs[i] = <<255, 255, 0>>
            /\ \A b \in Bases, e1 \in Exponents, e2 \in Exponents :
                  (e1 <= e2 /\ times[i] = Pow(b, e1) /\ max_ms = Pow(b, e2))
                      => rgbs[i] = <<(255 * e1) \div e2, 255, 0>>

\* C13: under one ceiling the red channel does not decrease as the value
\* grows through 2..ceiling.
C13_RedIsMonotone ==
    Mapped =>
        \A i, j \in 1..Len(times) :
            (/\ times[i] >= 2 /\ times[i] <= max_ms
             /\ times[j] >= 2 /\ times[j] <= max_ms
             /\ times[i] <= times[j])
                => rgbs[i][1] <= rgbs[j][1]

C13_Witness ==
    /\ Mapped
    /\ max_ms = 1000
    /\ times = <<10, 100>>
    /\ rgbs[1][1] < rgbs[2][1]

IsColour(c) == Len(c) = 3 /\ \A k \in 1..3 : c[k] \in 0..255

\* C14: every colour built for and sent to the device has its three channels
\* in 0..255, for every sample of the history and every ceiling.
C14_ChannelsInRange ==
    /\ Mapped => \A i \in 1..Len(rgbs) : IsColour(rgbs[i])
    /\ pc = "pace" => \A i \in 1..Len(strip) : IsColour(strip[i])

C14_Witness ==
    /\ pc = "pace"
    /\ Len(strip) = 2
    /\ times[1] = max_ms /\ strip[1] = <<255, 255, 0>>
    /\ times[2] > max_ms /\ strip[2] = DarkRed

\* C15: the colours rendered are as many as the history and the i-th is the
\* colour of the i-th sample, newest first; three failed iterations followed
\* by one of 42 ms give the history [42, failed, failed, failed] and the
\* colours [colour(42), red, red, red].
C15_ColoursFollowHistory ==
    /\ Mapped =>
          /\ Len(rgbs) = Len(times)
          /\ \A i \in 1..Len(times) : rgbs[i] = ms2rgb(times[i], max_ms)
    /\ pc = "pace" =>
          /\ Len(strip) = Len(times)
          /\ \A i \in 1..Len(times) : strip[i] = ms2rgb(times[i], max_ms)
    /\ (pc = "pace" /\ led_count >= 4 /\ pushed = <<None, None, None, 42>>) =>
          /\ times = <<42, None, None, None>>
          /\ strip = <<ms2rgb(42, max_ms), Red, Red, Red>>

C15_Witness ==
    /\ pc = "pace"
    /\ led_count = 4
    /\ pushed = <<None, None, None, 42>>
    /\ strip = <<<<125, 255, 0>>, Red, Red, Red>>

\* A line of unexpected format: not blank, none of the known beginnings, no
\* latency reading.
Malformed(line) ==
    /\ line # BlankLine
    /\ line.head \notin SkippedHeads \cup {"Request timeout"}
    /\ ReSearch(line) = <<>>

WithoutMalformed(out) == SelectSeq(out, LAMBDA l : ~Malformed(l))

\* C16: for a burst that has a usable value, the sample is the one the same
\* burst gives with its malformed lines removed.
C16_MalformedLinesAreIgnored ==
    LET clean == Ping(WithoutMalformed(output))
    IN  (BurstRead /\ \E i \in 1..Len(clean) : clean[i] # None) =>
            /\ pc = "insert"
            /\ sample = Reduce(clean)

C16_Witness ==
    /\ pc = "insert"
    /\ \E j \in 1..Len(output) : Malformed(output[j])
    /\ \E j \in 1..Len(output) : output[j] = Reply7
    /\ \E j \in 1..Len(output) : output[j] = Reply42
    /\ sample = 42

\* C17: the device info is fetched once; in and after every iteration the
\* LED count is the one fetched and time_per_led is timescale * 60 / LED
\* count.
C17_DeviceInfoIsFixed ==
    /\ Len(fetched) <= 1
    /\ iter > 0 =>
          /\ fetched = <<led_count>>
          /\ led_count >= 1
          /\ time_per_led * led_count = timescale * 60

C17_Witness ==
    /\ pc = "sample"
    /\ paces = 3
    /\ fetched = <<3>>
    /\ led_count = 3
    /\ timescale = 1
    /\ time_per_led = 20

\* C18: the mapper returns a colour for every sample and every ceiling, 0 and
\* 1 included: line 52 never raises, and under a ceiling below 2 only the
\* three fixed colours occur.
C18_MapperIsTotal ==
    /\ ~(pc = "exit" /\ error.line = 52)
    /\ Mapped =>
          /\ Len(rgbs) = Len(times)
          /\ \A i \in 1..Len(rgbs) :
                /\ Len(rgbs[i]) = 3
                /\ max_ms < 2 => rgbs[i] \in {Red, Green, DarkRed}

C18_Witness ==
    /\ Mapped
    /\ max_ms = 1
    /\ times = <<1, 2>>
    /\ rgbs = <<Green, DarkRed>>

\* C19: when the newest colour is read and the history rendered, the history
\* is not empty: for an LED count >= 1 the truncation keeps the sample just
\* pushed.
C19_NewestSampleIsKept ==
    /\ ~(pc = "exit" /\ error.line = 95)
    /\ (pc \in {"map", "render", "pace"} /\ led_count >= 1) =>
          /\ times # <<>>
          /\ times[1] = sample

C19_Witness ==
    /\ pc = "map"
    /\ led_count = 1
    /\ Len(pushed) >= 2
    /\ times = <<sample>>

====
